---------------------------- MODULE Spec2Model ----------------------------
(***************************************************************************)
(* Model of the nvrsux URL shortener (index.js, middleware/auth.js): the   *)
(* public routes /new, /r/:slug, /delete.py and /stats/:slug, and the      *)
(* admin listing /linksdata behind requireAdmin.                           *)
(*                                                                         *)
(* The link store is the MongoDB collection behind the mongoose model Url. *)
(* Every request handler is a sequence of steps separated by the awaits of *)
(* its storage calls: the code between two awaits runs without             *)
(* interruption on the node event loop, a storage call takes effect        *)
(* atomically at the store, and handlers of different requests interleave  *)
(* at the awaits.                                                          *)
(*                                                                         *)
(* Strings are sequences of one-character strings, so that trimming,       *)
(* pattern matching and URL parsing are computed and not assumed.          *)
(***************************************************************************)
EXTENDS Integers, Sequences, FiniteSets

VARIABLES
    store,      \* the collection: sequence of link documents, _id = position
    req,        \* the request handlers: slot -> handler state
    received,   \* number of requests received so far
    clock,      \* logical clock behind Date.now: advances when it is read
    submitted,  \* history: per document, the url string of its creation request
    served,     \* history: per document, the number of 301 responses sent for it
    deleted,    \* history: slugs for which a soft-delete has responded with success
    out         \* the handler that responded in the last step, Idle when none did

vars == <<store, req, received, clock, submitted, served, deleted, out>>

-----------------------------------------------------------------------------
(* Bounds of the model *)

\* number of request handlers that can be in flight at the same time
NumHandlers == 2

\* total number of requests received in one behaviour
MaxRequests == 3

Handlers == 1..NumHandlers

-----------------------------------------------------------------------------
(* Strings *)

Lower == {"a", "b", "c", "d", "e", "f", "g", "h", "i", "j", "k", "l", "m",
          "n", "o", "p", "q", "r", "s", "t", "u", "v", "w", "x", "y", "z"}
Upper == {"A", "B", "C", "D", "E", "F", "G", "H", "I", "J", "K", "L", "M",
          "N", "O", "P", "Q", "R", "S", "T", "U", "V", "W", "X", "Y", "Z"}
Digit == {"0", "1", "2", "3", "4", "5", "6", "7", "8", "9"}

\* white space removed by String.prototype.trim and by the URL parser
Space == {" "}

RECURSIVE TrimLeft(_)
TrimLeft(s) ==
    IF s # <<>> /\ Head(s) \in Space THEN TrimLeft(Tail(s)) ELSE s

RECURSIVE TrimRight(_)
TrimRight(s) ==
    IF s # <<>> /\ s[Len(s)] \in Space
    THEN TrimRight(SubSeq(s, 1, Len(s) - 1))
    ELSE s

\* mongoose's `trim: true` setter of a String path
Trim(s) == TrimRight(TrimLeft(s))

\* position of the first occurrence of character c in s, 0 when there is none
IndexOf(s, c) ==
    IF \E i \in 1..Len(s) : s[i] = c
    THEN CHOOSE i \in 1..Len(s) : s[i] = c /\ \A j \in 1..(i - 1) : s[j] # c
    ELSE 0

-----------------------------------------------------------------------------
(* Helper functions of index.js *)

\* schemes the URL parser treats as special (they need a host)
SpecialSchemes ==
    { <<"w", "s">>, <<"w", "s", "s">>, <<"f", "t", "p">>,
      <<"h", "t", "t", "p">>, <<"h", "t", "t", "p", "s">> }

\* host[:port] of an authority; the model's alphabet has no userinfo, no
\* brackets and no percent signs
AuthorityOk(auth, needHost) ==
    LET k    == IndexOf(auth, ":")
        host == IF k = 0 THEN auth ELSE SubSeq(auth, 1, k - 1)
        port == IF k = 0 THEN <<>> ELSE SubSeq(auth, k + 1, Len(auth))
    IN  /\ needHost => host # <<>>
        /\ \A i \in 1..Len(host) : host[i] \notin Space
        /\ (host = <<>>) => (port = <<>>)
        /\ \A i \in 1..Len(port) : port[i] \in Digit

RECURSIVE SkipSlashes(_)
SkipSlashes(s) ==
    IF s # <<>> /\ Head(s) = "/" THEN SkipSlashes(Tail(s)) ELSE s

\* the part of s before its first "/"
UpToSlash(s) ==
    LET k == IndexOf(s, "/") IN IF k = 0 THEN s ELSE SubSeq(s, 1, k - 1)

\* `new URL(url)` without a base: TRUE when the parse succeeds
UrlParses(url) ==
    LET s      == Trim(url)
        k      == IndexOf(s, ":")
        scheme == SubSeq(s, 1, k - 1)
        rest   == SubSeq(s, k + 1, Len(s))
    IN  /\ k > 1
        /\ scheme[1] \in (Lower \cup Upper)
        /\ \A i \in 1..Len(scheme) :
              scheme[i] \in (Lower \cup Upper \cup Digit \cup {"+", "-", "."})
        /\ IF scheme \in SpecialSchemes
           THEN AuthorityOk(UpToSlash(SkipSlashes(rest)), TRUE)
           ELSE IF Len(rest) >= 2 /\ SubSeq(rest, 1, 2) = <<"/", "/">>
                THEN AuthorityOk(UpToSlash(SubSeq(rest, 3, Len(rest))), FALSE)
                ELSE TRUE

\* the host of the URL that `new URL(url)` returns, for a url that parses;
\* a URL with an opaque path (no "//" after a non-special scheme) has none
UrlHost(url) ==
    LET s      == Trim(url)
        k      == IndexOf(s, ":")
        scheme == SubSeq(s, 1, k - 1)
        rest   == SubSeq(s, k + 1, Len(s))
        auth   == IF scheme \in SpecialSchemes
                  THEN UpToSlash(SkipSlashes(rest))
                  ELSE IF Len(rest) >= 2 /\ SubSeq(rest, 1, 2) = <<"/", "/">>
                       THEN UpToSlash(SubSeq(rest, 3, Len(rest)))
                       ELSE <<>>
        j      == IndexOf(auth, ":")
    IN  IF j = 0 THEN auth ELSE SubSeq(auth, 1, j - 1)

validateUrl(url) == UrlParses(url)

SlugChars == Lower \cup Upper \cup Digit \cup {"_", "-"}

\* /^[a-zA-Z0-9_-]{3,50}$/.test(slug)
validateSlug(slug) ==
    /\ Len(slug) >= 3
    /\ Len(slug) <= 50
    /\ \A i \in 1..Len(slug) : slug[i] \in SlugChars

\* characters of nanoid's default alphabet
NanoidChars == Lower \cup Upper \cup Digit \cup {"_", "-"}

\* the strings generateSlug can return: nanoid(n) with n drawn from 5..8
IsGeneratedSlug(s) ==
    /\ Len(s) \in 5..8
    /\ \A i \in 1..Len(s) : s[i] \in NanoidChars

-----------------------------------------------------------------------------
(* Inputs of the requests *)

UrlWs       == <<"w", "s", ":", "/", "/", "a">>
UrlPadded   == <<" ">> \o UrlWs \o <<" ">>
UrlNoScheme == <<"a">>

\* a scheme and nothing else: parses, with an empty opaque path and no host
UrlSchemeOnly == <<"a", ":">>

SlugShort == <<"a", "b">>
SlugSpace == <<"a", " ", "b">>
SlugBang  == <<"!", "!", "!">>

\* slug parameter of a creation request; <<>> is an absent or empty slug
GenA == <<"a", "a", "a", "a", "a">>
GenB == <<"b", "b", "b", "b", "b", "b", "b", "b">>

\* the creation requests: route, url and slug; an empty string is an absent
\* or empty parameter
CreateSamples ==
    { [route |-> "GET /new",  url |-> <<>>,          slug |-> <<>>],
      [route |-> "GET /new",  url |-> UrlNoScheme,   slug |-> GenA],
      [route |-> "GET /new",  url |-> UrlWs,         slug |-> <<>>],
      [route |-> "GET /new",  url |-> UrlWs,         slug |-> SlugShort],
      [route |-> "GET /new",  url |-> UrlWs,         slug |-> SlugBang],
      [route |-> "GET /new",  url |-> UrlPadded,     slug |-> GenA],
      [route |-> "POST /new", url |-> <<>>,          slug |-> GenA],
      [route |-> "POST /new", url |-> UrlSchemeOnly, slug |-> GenA],
      [route |-> "POST /new", url |-> UrlWs,         slug |-> SlugShort],
      [route |-> "POST /new", url |-> UrlWs,         slug |-> SlugSpace] }

\* the values generateSlug draws from in the model
GenSlugs == { s \in {GenA, GenB} : IsGeneratedSlug(s) }

\* slug parameter of redirect, delete and stats requests
LookupSlugs == { GenA }

TitleSamples == { <<"t">> }
DescSamples  == { <<>> }

CreateRoutes == { "GET /new", "POST /new" }

-----------------------------------------------------------------------------
(* The link store *)

\* mutant: the schema without its trim setters
NewDoc_NoTrim(url, shortSlug, title, desc, createdAt) ==
    [ originalUrl |-> url,
      shortSlug   |-> shortSlug,
      title       |-> title,
      description |-> desc,
      visits      |-> 0,
      createdAt   |-> createdAt,
      isActive    |-> TRUE ]

\* urlSchema: a document as the constructor builds it (setters and defaults)
NewDoc(url, shortSlug, title, desc, createdAt) ==
    [ originalUrl |-> Trim(url),
      shortSlug   |-> Trim(shortSlug),
      title       |-> Trim(title),
      description |-> Trim(desc),
      visits      |-> 0,
      createdAt   |-> createdAt,
      isActive    |-> TRUE ]

\* Url.findOne(filter): the _id of the first of the matching documents, 0
\* for null
FindOne(matching) ==
    IF matching = {}
    THEN 0
    ELSE CHOOSE i \in matching : \A j \in matching : i <= j

BySlug(st, slug) ==
    FindOne({ i \in 1..Len(st) : st[i].shortSlug = slug })

\* mutant: the redirect's lookup without its isActive filter
ByActiveSlug_AnyState(st, slug) == BySlug(st, slug)

ByActiveSlug(st, slug) ==
    FindOne({ i \in 1..Len(st) : st[i].shortSlug = slug /\ st[i].isActive })

\* mutant: shortSlug indexed without `unique: true`
DuplicateKey_NoIndex(st, doc) == FALSE

\* the unique index on shortSlug (taken as built): TRUE when inserting doc
\* raises E11000
DuplicateKey(st, doc) ==
    \E i \in 1..Len(st) : st[i].shortSlug = doc.shortSlug

-----------------------------------------------------------------------------
(* Request handlers *)

NoResponse == [status |-> 0, error |-> "", location |-> <<>>, data |-> <<>>]

Fail(status, error) ==
    [status |-> status, error |-> error, location |-> <<>>, data |-> <<>>]

Ok(status, data) ==
    [status |-> status, error |-> "", location |-> <<>>, data |-> <<data>>]

Redirect(status, url) ==
    [status |-> status, error |-> "", location |-> url, data |-> <<>>]

\* the query parameters of /linksdata, none given
NoQuery ==
    [page |-> 0, limit |-> 0, order |-> "", search |-> <<>>, active |-> ""]

Idle ==
    [ pc        |-> "idle",
      route     |-> "",
      url       |-> <<>>,      \* request parameters
      slug      |-> <<>>,
      title     |-> <<>>,
      desc      |-> <<>>,
      shortSlug |-> <<>>,      \* locals of the handler
      attempts  |-> 0,
      docId     |-> 0,         \* _id of the document held, 0 when new or none
      doc       |-> <<>>,      \* the document held: <<>> or <<d>>
      adminKey  |-> <<>>,      \* parameters of /linksdata
      query     |-> NoQuery,
      total     |-> 0,         \* locals of the /linksdata handler
      urls      |-> <<>>,
      activeCount |-> 0,
      dbCalls   |-> 0,         \* history: storage calls issued by the handler
      afterDel  |-> FALSE,     \* history: received after a successful delete of slug
      res       |-> NoResponse ]

Free(h) == req[h].pc = "idle"

\* requests are dispatched to the first free handler
CanReceive(h) ==
    /\ received < MaxRequests
    /\ Free(h)
    /\ \A g \in 1..(h - 1) : ~Free(g)

Respond(r, res) == [r EXCEPT !.pc = "done", !.res = res]

\* handler h goes on as r; once it has responded the handler is free again
Continue(h, r) ==
    /\ req' = [req EXCEPT ![h] = IF r.pc = "done" THEN Idle ELSE r]
    /\ out' = IF r.pc = "done" THEN r ELSE Idle

Received(route, slug) ==
    [Idle EXCEPT !.route = route, !.slug = slug, !.afterDel = slug \in deleted]

\* `attempts < 5`
MaxAttempts == 5

-----------------------------------------------------------------------------
(* GET /new and POST /new *)

MissingUrlError(route) ==
    IF route = "GET /new" THEN "URL parameter is required" ELSE "URL is required"

SlugFormatError ==
    "Slug can only contain letters, numbers, hyphens, and underscores (3-50 characters)"

\* mutant: the catch block without the remapping of E11000
CreateCatch_NoRemap(code) == Fail(500, "Failed to create short URL")

\* the handler's catch block: E11000 is a duplicate key error
CreateCatch(code) ==
    IF code = 11000
    THEN Fail(409, "Slug already exists, please try again")
    ELSE Fail(500, "Failed to create short URL")

CreateSuccess(r, doc) ==
    Ok(IF r.route = "GET /new" THEN 200 ELSE 201,
       [ originalUrl |-> r.url,
         shortSlug   |-> r.shortSlug,
         title       |-> r.title,
         description |-> r.desc,
         createdAt   |-> doc.createdAt ])

\* mutant: the custom slug goes to the existence check unvalidated
CreateValidate_NoSlugCheck(r, gen) ==
    IF r.url = <<>>
    THEN Respond(r, Fail(400, MissingUrlError(r.route)))
    ELSE IF ~validateUrl(r.url)
    THEN Respond(r, Fail(400, "Invalid URL format"))
    ELSE IF r.slug # <<>>
    THEN [r EXCEPT !.pc = "findOne", !.shortSlug = r.slug, !.dbCalls = 1]
    ELSE [r EXCEPT !.pc = "findOne", !.shortSlug = gen, !.dbCalls = 1]

\* from the start of the handler to its first await; gen is the value
\* generateSlug returns if it is called
CreateValidate(r, gen) ==
    IF r.url = <<>>
    THEN Respond(r, Fail(400, MissingUrlError(r.route)))
    ELSE IF ~validateUrl(r.url)
    THEN Respond(r, Fail(400, "Invalid URL format"))
    ELSE IF r.slug # <<>>
    THEN IF ~validateSlug(r.slug)
         THEN Respond(r, Fail(400, SlugFormatError))
         ELSE [r EXCEPT !.pc = "findOne", !.shortSlug = r.slug, !.dbCalls = 1]
    ELSE [r EXCEPT !.pc = "findOne", !.shortSlug = gen, !.dbCalls = 1]

ReceiveCreate(h, route, url, slug, title, desc, gen) ==
    /\ CanReceive(h)
    /\ received' = received + 1
    /\ Continue(h,
                  CreateValidate([Received(route, slug) EXCEPT
                                     !.url = url, !.title = title, !.desc = desc],
                                 gen))
    /\ UNCHANGED <<store, clock, submitted, served, deleted>>

\* new Url({...}) followed by the call of save
CreateDocument(r, createdAt) ==
    [r EXCEPT !.pc = "save",
              !.doc = <<NewDoc(r.url, r.shortSlug, r.title, r.desc, createdAt)>>,
              !.dbCalls = @ + 1]

\* mutant: the existence check with its condition inverted
CustomChecked_Inverted(r, existing, createdAt) ==
    IF ~existing
    THEN Respond(r, Fail(409, "Slug already exists, please choose another one"))
    ELSE CreateDocument(r, createdAt)

\* the existence check returns on the custom slug path
CustomChecked(r, existing, createdAt) ==
    IF existing
    THEN Respond(r, Fail(409, "Slug already exists, please choose another one"))
    ELSE CreateDocument(r, createdAt)

\* mutant: the loop condition `attempts <= 5`
GeneratedChecked_OffByOne(r, existing, createdAt, gen) ==
    LET attempts == r.attempts + 1
        isUnique == ~existing
        r1       == [r EXCEPT !.attempts = attempts]
    IN  IF ~isUnique /\ attempts <= MaxAttempts
        THEN [r1 EXCEPT !.shortSlug = gen, !.dbCalls = @ + 1]
        ELSE IF ~isUnique
        THEN Respond(r1, Fail(500, "Failed to generate unique slug, please try again"))
        ELSE CreateDocument(r1, createdAt)

\* one turn of the while loop on the generated slug path; gen is the value
\* generateSlug returns if the loop runs again
GeneratedChecked(r, existing, createdAt, gen) ==
    LET attempts == r.attempts + 1
        isUnique == ~existing
        r1       == [r EXCEPT !.attempts = attempts]
    IN  IF ~isUnique /\ attempts < MaxAttempts
        THEN [r1 EXCEPT !.shortSlug = gen, !.dbCalls = @ + 1]
        ELSE IF ~isUnique
        THEN Respond(r1, Fail(500, "Failed to generate unique slug, please try again"))
        ELSE CreateDocument(r1, createdAt)

CreateFindOne(h, gen) ==
    LET r        == req[h]
        existing == BySlug(store, r.shortSlug) # 0
        r2       == IF r.slug # <<>>
                    THEN CustomChecked(r, existing, clock)
                    ELSE GeneratedChecked(r, existing, clock, gen)
    IN  /\ r.pc = "findOne"
        /\ r.route \in CreateRoutes
        /\ Continue(h, r2)
        /\ clock' = IF r2.pc = "save" THEN clock + 1 ELSE clock
        /\ UNCHANGED <<store, received, submitted, served, deleted>>

\* schema validation run by save before the insert (required paths)
ValidationFails(doc) == doc.originalUrl = <<>> \/ doc.shortSlug = <<>>

\* mutant: the insert takes effect although the duplicate key error is raised
CreateSave_InsertsThenFails(h) ==
    LET r   == req[h]
        doc == r.doc[1]
    IN  /\ r.pc = "save"
        /\ r.route \in CreateRoutes
        /\ store' = Append(store, doc)
        /\ submitted' = Append(submitted, r.url)
        /\ served' = Append(served, 0)
        /\ IF ValidationFails(doc)
           THEN Continue(h, Respond(r, CreateCatch(0)))
           ELSE IF DuplicateKey(store, doc)
           THEN Continue(h, Respond(r, CreateCatch(11000)))
           ELSE Continue(h,
                           Respond([r EXCEPT !.docId = Len(store) + 1],
                                   CreateSuccess(r, doc)))
        /\ UNCHANGED <<received, clock, deleted>>

CreateSave(h) ==
    LET r   == req[h]
        doc == r.doc[1]
    IN  /\ r.pc = "save"
        /\ r.route \in CreateRoutes
        /\ IF ValidationFails(doc)
           THEN /\ Continue(h, Respond(r, CreateCatch(0)))
                /\ UNCHANGED <<store, submitted, served>>
           ELSE IF DuplicateKey(store, doc)
           THEN /\ Continue(h, Respond(r, CreateCatch(11000)))
                /\ UNCHANGED <<store, submitted, served>>
           ELSE /\ store' = Append(store, doc)
                /\ submitted' = Append(submitted, r.url)
                /\ served' = Append(served, 0)
                /\ Continue(h,
                              Respond([r EXCEPT !.docId = Len(store) + 1],
                                      CreateSuccess(r, doc)))
        /\ UNCHANGED <<received, clock, deleted>>

-----------------------------------------------------------------------------
(* GET /r/:slug *)

ReceiveRedirect(h, slug) ==
    /\ CanReceive(h)
    /\ received' = received + 1
    /\ Continue(h,
                  [Received("GET /r/:slug", slug) EXCEPT
                      !.pc = "findOne", !.dbCalls = 1])
    /\ UNCHANGED <<store, clock, submitted, served, deleted>>

\* mutant: the hit counts twice
RedirectFound_CountsTwice(r, st, id) ==
    IF id = 0
    THEN Respond(r, Fail(404, "Short URL not found"))
    ELSE [r EXCEPT !.pc = "save",
                   !.docId = id,
                   !.doc = <<[st[id] EXCEPT !.visits = @ + 2]>>,
                   !.dbCalls = @ + 1]

\* findOne returns; on a hit `urlData.visits += 1` and the call of save
RedirectFound(r, st, id) ==
    IF id = 0
    THEN Respond(r, Fail(404, "Short URL not found"))
    ELSE [r EXCEPT !.pc = "save",
                   !.docId = id,
                   !.doc = <<[st[id] EXCEPT !.visits = @ + 1]>>,
                   !.dbCalls = @ + 1]

RedirectFindOne(h) ==
    LET r == req[h]
    IN  /\ r.pc = "findOne"
        /\ r.route = "GET /r/:slug"
        /\ Continue(h,
                      RedirectFound(r, store, ByActiveSlug(store, r.slug)))
        /\ UNCHANGED <<store, received, clock, submitted, served, deleted>>

\* mutant: save writes the whole document back, not the modified path only
SaveVisits_WholeDocument(st, id, doc) == [st EXCEPT ![id] = doc]

\* save of a loaded document whose only modified path is visits:
\* updateOne({_id}, {$set: {visits}})
SaveVisits(st, id, doc) == [st EXCEPT ![id].visits = doc.visits]

RedirectSave(h) ==
    LET r == req[h]
    IN  /\ r.pc = "save"
        /\ r.route = "GET /r/:slug"
        /\ store' = SaveVisits(store, r.docId, r.doc[1])
        /\ served' = [served EXCEPT ![r.docId] = @ + 1]
        /\ Continue(h,
                      Respond(r, Redirect(301, r.doc[1].originalUrl)))
        /\ UNCHANGED <<received, clock, submitted, deleted>>

-----------------------------------------------------------------------------
(* GET /delete.py *)

ReceiveDelete(h, slug) ==
    /\ CanReceive(h)
    /\ received' = received + 1
    /\ Continue(h,
                  IF slug = <<>>
                  THEN Respond(Received("GET /delete.py", slug),
                               Fail(400, "Slug parameter is required"))
                  ELSE [Received("GET /delete.py", slug) EXCEPT
                           !.pc = "findOne", !.dbCalls = 1])
    /\ UNCHANGED <<store, clock, submitted, served, deleted>>

\* mutant: the delete's lookup restricted to active records
DeleteFound_ActiveOnly(r, st, id) ==
    IF id = 0 \/ ~st[id].isActive
    THEN Respond(r, Fail(404, "URL not found"))
    ELSE [r EXCEPT !.pc = "save",
                   !.docId = id,
                   !.doc = <<[st[id] EXCEPT !.isActive = FALSE]>>,
                   !.dbCalls = @ + 1]

\* findOne returns; on a hit `urlData.isActive = false` and the call of save
DeleteFound(r, st, id) ==
    IF id = 0
    THEN Respond(r, Fail(404, "URL not found"))
    ELSE [r EXCEPT !.pc = "save",
                   !.docId = id,
                   !.doc = <<[st[id] EXCEPT !.isActive = FALSE]>>,
                   !.dbCalls = @ + 1]

DeleteFindOne(h) ==
    LET r == req[h]
    IN  /\ r.pc = "findOne"
        /\ r.route = "GET /delete.py"
        /\ Continue(h, DeleteFound(r, store, BySlug(store, r.slug)))
        /\ UNCHANGED <<store, received, clock, submitted, served, deleted>>

\* save of a loaded document whose only modified path is isActive (when the
\* document was inactive already nothing is modified and nothing is written)
SaveIsActive(st, id, doc) == [st EXCEPT ![id].isActive = doc.isActive]

DeleteSave(h) ==
    LET r == req[h]
    IN  /\ r.pc = "save"
        /\ r.route = "GET /delete.py"
        /\ store' = SaveIsActive(store, r.docId, r.doc[1])
        /\ deleted' = deleted \cup {r.slug}
        /\ Continue(h,
                      Respond(r, Ok(200, [ slug        |-> r.slug,
                                           originalUrl |-> r.doc[1].originalUrl ])))
        /\ UNCHANGED <<received, clock, submitted, served>>

-----------------------------------------------------------------------------
(* GET /stats/:slug *)

ReceiveStats(h, slug) ==
    /\ CanReceive(h)
    /\ received' = received + 1
    /\ Continue(h,
                  [Received("GET /stats/:slug", slug) EXCEPT
                      !.pc = "findOne", !.dbCalls = 1])
    /\ UNCHANGED <<store, clock, submitted, served, deleted>>

StatsFound(r, st, id) ==
    IF id = 0
    THEN Respond(r, Fail(404, "URL not found"))
    ELSE Respond([r EXCEPT !.docId = id],
                 Ok(200, [ originalUrl |-> st[id].originalUrl,
                           shortSlug   |-> st[id].shortSlug,
                           title       |-> st[id].title,
                           description |-> st[id].description,
                           visits      |-> st[id].visits,
                           isActive    |-> st[id].isActive,
                           createdAt   |-> st[id].createdAt ]))

StatsFindOne(h) ==
    LET r == req[h]
    IN  /\ r.pc = "findOne"
        /\ r.route = "GET /stats/:slug"
        /\ Continue(h, StatsFound(r, store, BySlug(store, r.slug)))
        /\ UNCHANGED <<store, received, clock, submitted, served, deleted>>

-----------------------------------------------------------------------------
(* GET /linksdata, behind requireAdmin                                      *)

\* process.env.ADMIN_KEY
ADMIN_KEY == <<"k">>

\* mutant: the key is asked for but not compared
requireAdmin_KeyNotCompared(adminKey) ==
    IF adminKey = <<>>
    THEN Fail(401, "Admin key required")
    ELSE NoResponse

\* the middleware: its response, NoResponse when it calls next()
requireAdmin(adminKey) ==
    IF adminKey = <<>>
    THEN Fail(401, "Admin key required")
    ELSE IF adminKey # ADMIN_KEY
    THEN Fail(403, "Invalid admin key")
    ELSE NoResponse

UpperLetters ==
    <<"A", "B", "C", "D", "E", "F", "G", "H", "I", "J", "K", "L", "M",
      "N", "O", "P", "Q", "R", "S", "T", "U", "V", "W", "X", "Y", "Z">>
LowerLetters ==
    <<"a", "b", "c", "d", "e", "f", "g", "h", "i", "j", "k", "l", "m",
      "n", "o", "p", "q", "r", "s", "t", "u", "v", "w", "x", "y", "z">>

\* case folding of `$options: 'i'`
FoldCase(s) ==
    [ i \in 1..Len(s) |->
        IF \E k \in 1..26 : UpperLetters[k] = s[i]
        THEN LowerLetters[CHOOSE k \in 1..26 : UpperLetters[k] = s[i]]
        ELSE s[i] ]

\* { field: { $regex: search, $options: 'i' } } for a search string of
\* literal characters: sub occurs in s, whatever the case
RegexMatches(s, sub) ==
    \E i \in 1..(Len(s) - Len(sub) + 1) :
        SubSeq(FoldCase(s), i, i + Len(sub) - 1) = FoldCase(sub)

\* the filter built from the active and search parameters
QueryMatches(doc, query) ==
    /\ query.active \in {"true", "false"} => doc.isActive = (query.active = "true")
    /\ query.search # <<>> =>
          \/ RegexMatches(doc.originalUrl, query.search)
          \/ RegexMatches(doc.shortSlug, query.search)
          \/ RegexMatches(doc.title, query.search)
          \/ RegexMatches(doc.description, query.search)

Matching(st, query) == { i \in 1..Len(st) : QueryMatches(st[i], query) }

\* Url.countDocuments(filter)
CountDocuments(matching) == Cardinality(matching)

\* .sort({ createdAt: order === 'desc' ? -1 : 1 }): the documents of ids in
\* that order
RECURSIVE SortByCreatedAt(_, _, _)
SortByCreatedAt(st, ids, order) ==
    IF ids = {}
    THEN <<>>
    ELSE LET first == CHOOSE i \in ids : \A j \in ids :
                          IF order = "desc"
                          THEN st[i].createdAt >= st[j].createdAt
                          ELSE st[i].createdAt <= st[j].createdAt
         IN  <<st[first]>> \o SortByCreatedAt(st, ids \ {first}, order)

\* .skip(skip).limit(limit)
SkipLimit(docs, skip, limit) ==
    SubSeq(docs, skip + 1, IF skip + limit < Len(docs) THEN skip + limit ELSE Len(docs))

\* the $group stage: the sum of visits over the documents of ids
RECURSIVE SumVisits(_, _)
SumVisits(st, ids) ==
    IF ids = {}
    THEN 0
    ELSE LET i == CHOOSE i \in ids : TRUE
         IN  st[i].visits + SumVisits(st, ids \ {i})

\* Math.ceil(total / limit) for limit >= 1
TotalPages(total, limit) == (total + limit - 1) \div limit

\* the requests: adminKey and the query parameters after their defaults and
\* parseInt (page 1, limit 100, order 'desc', search '', active 'true')
ListSamples ==
    { [adminKey |-> <<>>,
       query |-> [page |-> 1, limit |-> 100, order |-> "desc", search |-> <<>>, active |-> "true"]],
      [adminKey |-> <<"x">>,
       query |-> [page |-> 1, limit |-> 100, order |-> "desc", search |-> <<>>, active |-> "true"]],
      [adminKey |-> ADMIN_KEY,
       query |-> [page |-> 1, limit |-> 100, order |-> "desc", search |-> <<>>, active |-> "true"]],
      [adminKey |-> ADMIN_KEY,
       query |-> [page |-> 1, limit |-> 100, order |-> "desc", search |-> <<>>, active |-> "false"]],
      [adminKey |-> ADMIN_KEY,
       query |-> [page |-> 2, limit |-> 1, order |-> "asc", search |-> <<"B">>, active |-> "all"]] }

\* requireAdmin, then the handler up to its first await
ReceiveList(h, adminKey, query) ==
    LET r    == [Received("GET /linksdata", <<>>) EXCEPT
                    !.adminKey = adminKey, !.query = query]
        gate == requireAdmin(adminKey)
    IN  /\ CanReceive(h)
        /\ received' = received + 1
        /\ Continue(h,
                      IF gate # NoResponse
                      THEN Respond(r, gate)
                      ELSE [r EXCEPT !.pc = "count", !.dbCalls = 1])
        /\ UNCHANGED <<store, clock, submitted, served, deleted>>

\* `total` arrives; the call of find
ListCount(h) ==
    LET r == req[h]
    IN  /\ r.pc = "count"
        /\ Continue(h,
                      [r EXCEPT !.pc = "find",
                                !.total = CountDocuments(Matching(store, r.query)),
                                !.dbCalls = @ + 1])
        /\ UNCHANGED <<store, received, clock, submitted, served, deleted>>

\* `urls` arrives; the call of countDocuments({ isActive: true })
ListFind(h) ==
    LET r == req[h]
    IN  /\ r.pc = "find"
        /\ Continue(h,
                      [r EXCEPT !.pc = "countActive",
                                !.urls = SkipLimit(
                                    SortByCreatedAt(store, Matching(store, r.query),
                                                    r.query.order),
                                    (r.query.page - 1) * r.query.limit,
                                    r.query.limit),
                                !.dbCalls = @ + 1])
        /\ UNCHANGED <<store, received, clock, submitted, served, deleted>>

\* `activeCount` arrives; the call of aggregate
ListCountActive(h) ==
    LET r == req[h]
    IN  /\ r.pc = "countActive"
        /\ Continue(h,
                      [r EXCEPT !.pc = "aggregate",
                                !.activeCount =
                                    CountDocuments({ i \in 1..Len(store) : store[i].isActive }),
                                !.dbCalls = @ + 1])
        /\ UNCHANGED <<store, received, clock, submitted, served, deleted>>

\* the body of the response; averageVisits is the fraction <<sum, count>>
ListData(r, totalVisits) ==
    [ urls       |-> r.urls,
      pagination |-> [ page       |-> r.query.page,
                       limit      |-> r.query.limit,
                       total      |-> r.total,
                       totalPages |-> TotalPages(r.total, r.query.limit) ],
      statistics |-> [ totalUrls     |-> r.total,
                       activeUrls    |-> r.activeCount,
                       inactiveUrls  |-> r.total - r.activeCount,
                       totalVisits   |-> totalVisits,
                       averageVisits |-> IF r.activeCount > 0
                                         THEN <<totalVisits, r.activeCount>>
                                         ELSE <<0, 1>> ] ]

\* `totalVisits` arrives; the response
ListAggregate(h) ==
    LET r == req[h]
        totalVisits == SumVisits(store, { i \in 1..Len(store) : store[i].isActive })
    IN  /\ r.pc = "aggregate"
        /\ Continue(h, Respond(r, Ok(200, ListData(r, totalVisits))))
        /\ UNCHANGED <<store, received, clock, submitted, served, deleted>>

\* a storage call of the listing rejects: its catch block answers
ListFails(h) ==
    /\ req[h].pc \in {"count", "find", "countActive", "aggregate"}
    /\ Continue(h, Respond(req[h], Fail(500, "Failed to fetch links data")))
    /\ UNCHANGED <<store, received, clock, submitted, served, deleted>>

-----------------------------------------------------------------------------
(* Storage failures: a storage call rejects and the handler's catch block   *)
(* answers                                                                  *)

CatchAll(route) ==
    IF route \in CreateRoutes THEN CreateCatch(0)
    ELSE IF route = "GET /r/:slug" THEN Fail(500, "Failed to redirect")
    ELSE IF route = "GET /delete.py" THEN Fail(500, "Failed to delete URL")
    ELSE Fail(500, "Failed to get URL stats")

FindOneFails(h) ==
    /\ req[h].pc = "findOne"
    /\ Continue(h, Respond(req[h], CatchAll(req[h].route)))
    /\ UNCHANGED <<store, received, clock, submitted, served, deleted>>

\* mutant: the failed write is swallowed and the redirect is sent
SaveFails_Swallowed(h) ==
    /\ req[h].pc = "save"
    /\ Continue(h, IF req[h].route = "GET /r/:slug"
                   THEN Respond(req[h], Redirect(301, req[h].doc[1].originalUrl))
                   ELSE Respond(req[h], CatchAll(req[h].route)))
    /\ UNCHANGED <<store, received, clock, submitted, served, deleted>>

SaveFails(h) ==
    /\ req[h].pc = "save"
    /\ Continue(h, Respond(req[h], CatchAll(req[h].route)))
    /\ UNCHANGED <<store, received, clock, submitted, served, deleted>>

-----------------------------------------------------------------------------
(* Specifications *)

Init ==
    /\ store = <<>>
    /\ req = [h \in Handlers |-> Idle]
    /\ received = 0
    /\ clock = 0
    /\ submitted = <<>>
    /\ served = <<>>
    /\ deleted = {}
    /\ out = Idle

\* the collection outlives the process: a start with one link stored by an
\* earlier run
InitStored ==
    /\ store = <<NewDoc(UrlWs, GenA, <<"t">>, <<>>, 0)>>
    /\ req = [h \in Handlers |-> Idle]
    /\ received = 0
    /\ clock = 1
    /\ submitted = <<UrlWs>>
    /\ served = <<0>>
    /\ deleted = {}
    /\ out = Idle

Receive(h) ==
    \/ \E in \in CreateSamples, title \in TitleSamples, desc \in DescSamples,
          gen \in GenSlugs :
          ReceiveCreate(h, in.route, in.url, in.slug, title, desc, gen)
    \/ \E slug \in LookupSlugs : ReceiveRedirect(h, slug)
    \/ \E slug \in LookupSlugs \cup {<<>>} : ReceiveDelete(h, slug)
    \/ \E slug \in LookupSlugs : ReceiveStats(h, slug)

Step(h) ==
    \/ \E gen \in GenSlugs : CreateFindOne(h, gen)
    \/ CreateSave(h)
    \/ RedirectFindOne(h)
    \/ RedirectSave(h)
    \/ DeleteFindOne(h)
    \/ DeleteSave(h)
    \/ StatsFindOne(h)

Fault(h) ==
    \/ FindOneFails(h)
    \/ SaveFails(h)

\* the storage answers every call
Next == \E h \in Handlers : Receive(h) \/ Step(h)

Spec == Init /\ [][Next]_vars

SpecStored == InitStored /\ [][Next]_vars

\* storage calls may fail
NextFault == \E h \in Handlers : Receive(h) \/ Step(h) \/ Fault(h)

SpecFault == Init /\ [][NextFault]_vars

\* one request at a time: a request is received when no other is in flight
NextSeq ==
    \E h \in Handlers :
        \/ (\A g \in Handlers : Free(g)) /\ Receive(h)
        \/ Step(h)

SpecSeq == Init /\ [][NextSeq]_vars

ReceiveAdmin(h) ==
    \E in \in ListSamples : ReceiveList(h, in.adminKey, in.query)

StepAdmin(h) ==
    \/ ListCount(h)
    \/ ListFind(h)
    \/ ListCountActive(h)
    \/ ListAggregate(h)
    \/ ListFails(h)

\* the public routes and the admin listing, one request at a time; the
\* storage calls of the listing may fail
NextAdminSeq ==
    \E h \in Handlers :
        \/ (\A g \in Handlers : Free(g)) /\ Receive(h)
        \/ (\A g \in Handlers : Free(g)) /\ ReceiveAdmin(h)
        \/ Step(h)
        \/ StepAdmin(h)

SpecAdminSeq == Init /\ [][NextAdminSeq]_vars

-----------------------------------------------------------------------------
(* Vocabulary of the claims *)

Ids == 1..Len(store)

Holders(slug) == { i \in Ids : store[i].shortSlug = slug }

Responded == out.pc = "done"

CreateResponded == Responded /\ out.route \in CreateRoutes

RedirectResponded == Responded /\ out.route = "GET /r/:slug"

StatsResponded == Responded /\ out.route = "GET /stats/:slug"

Succeeded == out.res.status \in {200, 201}

InFlight(h, route) == req[h].pc # "idle" /\ req[h].route = route

-----------------------------------------------------------------------------
(* C1: in every reachable state no two link records have the same          *)
(* shortSlug, whatever the interleaving of the creation requests; inactive *)
(* records hold their slug like active ones.                               *)

C1_ShortSlugUnique ==
    \A i, j \in Ids : store[i].shortSlug = store[j].shortSlug => i = j

\* a creation lost the race: its insert was rejected by the unique index
C1_Witness ==
    /\ CreateResponded
    /\ out.res = CreateCatch(11000)
    /\ Cardinality(Holders(out.shortSlug)) = 1

-----------------------------------------------------------------------------
(* C2: when N redirect requests on the same active slug run concurrently   *)
(* and all of them respond with the 301 redirect, visits is afterwards     *)
(* exactly N greater than before: whenever no redirect on a record is      *)
(* between its read and its write, visits equals the number of 301         *)
(* responses sent for the record.                                          *)

Writing(i) ==
    \E h \in Handlers :
        InFlight(h, "GET /r/:slug") /\ req[h].pc = "save" /\ req[h].docId = i

C2_NoLostVisit ==
    \A i \in Ids : ~Writing(i) => store[i].visits = served[i]

-----------------------------------------------------------------------------
(* C3: the visits counter of every link record never decreases: in every   *)
(* step the new value is greater than or equal to the old one.             *)

VisitsGrow == \A i \in Ids : store'[i].visits >= store[i].visits

C3_VisitsNeverDecrease == [][VisitsGrow]_vars

-----------------------------------------------------------------------------
(* C4: once a soft-delete of slug s has responded with success, every      *)
(* redirect request on s received afterwards responds 404 and writes       *)
(* nothing (it never holds a document to save), and every stats request on *)
(* s received afterwards succeeds with the record's visits and             *)
(* isActive = false.                                                       *)

C4_DeletedSlugIsGone ==
    /\ \A h \in Handlers :
          InFlight(h, "GET /r/:slug") /\ req[h].afterDel
              => req[h].pc = "findOne" /\ req[h].doc = <<>>
    /\ RedirectResponded /\ out.afterDel
          => out.res = Fail(404, "Short URL not found") /\ out.doc = <<>>
    /\ StatsResponded /\ out.afterDel
          => /\ out.res.status = 200
             /\ out.docId \in Holders(out.slug)
             /\ out.res.data[1].visits = store[out.docId].visits
             /\ out.res.data[1].isActive = FALSE

\* a redirect received after the delete has answered
C4_Witness ==
    /\ RedirectResponded
    /\ out.afterDel
    /\ out.res.status = 404
    /\ \E i \in Holders(out.slug) : ~store[i].isActive

-----------------------------------------------------------------------------
(* C5: a creation request with a valid url and a custom slug s matching    *)
(* the slug pattern, run with no other request in flight, succeeds if and  *)
(* only if no record (active or not) held s before it, and fails with      *)
(* SlugTaken (409) otherwise.                                              *)

CustomCreateResponded ==
    /\ CreateResponded
    /\ validateUrl(out.url)
    /\ out.slug # <<>>
    /\ validateSlug(out.slug)

\* records holding the slug of the response, other than the one it inserted
HeldByOthers == Holders(out.shortSlug) \ {out.docId}

C5_CustomSlugOnce ==
    CustomCreateResponded =>
        /\ Succeeded <=> HeldByOthers = {}
        /\ Succeeded => out.docId = Len(store) /\ Holders(out.slug) = {out.docId}
        /\ ~Succeeded => out.res.status = 409 /\ out.docId = 0

\* the slug of a soft-deleted record is refused
C5_Witness ==
    /\ CustomCreateResponded
    /\ out.res.status = 409
    /\ \E i \in Holders(out.slug) : ~store[i].isActive

-----------------------------------------------------------------------------
(* C6: a creation request that passed the existence check and then inserts *)
(* either finds no other holder of its slug and succeeds, or finds that a  *)
(* request racing with it inserted the slug first and responds SlugTaken   *)
(* (409) without inserting: never a storage failure (500), never success   *)
(* next to another holder.                                                 *)

\* the response of a creation handler that reached its insert
InsertResponded == CreateResponded /\ out.doc # <<>>

C6_LateDuplicateIsSlugTaken ==
    InsertResponded =>
        IF HeldByOthers # {}
        THEN /\ out.res = Fail(409, "Slug already exists, please try again")
             /\ out.docId = 0
        ELSE /\ Succeeded
             /\ out.docId = Len(store)
             /\ store[out.docId].shortSlug = out.shortSlug

\* both requests passed the check, the first has inserted, the second is
\* about to
C6_Witness ==
    /\ InsertResponded
    /\ Succeeded
    /\ \E h \in Handlers :
          /\ req[h].pc = "save"
          /\ req[h].route \in CreateRoutes
          /\ req[h].shortSlug = out.shortSlug

-----------------------------------------------------------------------------
(* C7 as stated: after a creation that succeeded with slug s for url u, a  *)
(* redirect on s responds with a 301 redirect to u.                        *)

C7_RedirectsToSubmittedUrl ==
    RedirectResponded /\ out.res.status = 301
        => out.res.location = submitted[out.docId]

(* C7 as amended: the redirect goes to u with the leading and trailing     *)
(* white space removed; a redirect on a slug held by an active record is   *)
(* not answered 404; after exactly one redirect stats reports visits = 1.  *)

C7_RedirectsToTrimmedUrl ==
    /\ RedirectResponded /\ out.res.status = 301
          => /\ out.docId \in Holders(out.slug)
             /\ out.res.location = Trim(submitted[out.docId])
    /\ RedirectResponded /\ out.res.status # 301
          => /\ out.res.status = 404
             /\ \A i \in Holders(out.slug) : ~store[i].isActive
    /\ StatsResponded /\ out.docId # 0 /\ served[out.docId] = 1
          => out.res.data[1].visits = 1

\* stats after one redirect on a link created with a padded url
C7_Witness ==
    /\ StatsResponded
    /\ out.docId # 0
    /\ served[out.docId] = 1
    /\ submitted[out.docId] = UrlPadded
    /\ out.res.data[1].visits = 1

-----------------------------------------------------------------------------
(* C8: on the generated slug path the handler makes at most 5 attempts;    *)
(* every turn of the loop counts one attempt, goes on to the insert of the *)
(* slug when the slug is free, tries again when it is taken and fewer than *)
(* 5 attempts were made, and responds GenerationExhausted (500) at the 5th *)
(* collision, with nothing inserted. The attempt counter is the loop's     *)
(* variant, so the loop terminates.                                        *)

Generating(h) ==
    /\ req[h].pc = "findOne"
    /\ req[h].route \in CreateRoutes
    /\ req[h].slug = <<>>

Exhausted(r) ==
    r.res = Fail(500, "Failed to generate unique slug, please try again")

LoopTurn(h) ==
    LET r     == req[h]
        taken == Holders(r.shortSlug) # {}
    IN  IF ~taken
        THEN /\ req'[h].pc = "save"
             /\ req'[h].attempts = r.attempts + 1
             /\ req'[h].doc[1].shortSlug = r.shortSlug
        ELSE IF r.attempts + 1 < 5
        THEN /\ req'[h].pc = "findOne"
             /\ req'[h].attempts = r.attempts + 1
        ELSE /\ req'[h] = Idle
             /\ Exhausted(out')
             /\ out'.attempts = 5
             /\ out'.doc = <<>>
             /\ store' = store

C8_BoundedGeneration ==
    [][ /\ \A h \in Handlers : Generating(h) /\ req'[h] # req[h] => LoopTurn(h)
        /\ \A h \in Handlers : Generating(h)' => req'[h].attempts < 5
        /\ (Responded /\ Exhausted(out))' => (out.attempts = 5)' ]_vars

\* the 5th collision
C8_Witness ==
    /\ CreateResponded
    /\ Exhausted(out)
    /\ out.attempts = 5
    /\ Cardinality(Holders(out.shortSlug)) = 1

-----------------------------------------------------------------------------
(* C9: a creation request with a valid url and a non-empty custom slug     *)
(* that fails the slug pattern responds InvalidSlugFormat (400) in the     *)
(* step that receives it: the handler issues no storage call and is never  *)
(* in flight.                                                              *)

BadSlug(r) ==
    /\ r.route \in CreateRoutes
    /\ r.url # <<>>
    /\ validateUrl(r.url)
    /\ r.slug # <<>>
    /\ ~validateSlug(r.slug)

C9_BadSlugBeforeStorage ==
    /\ \A h \in Handlers : ~BadSlug(req[h])
    /\ Responded /\ BadSlug(out)
          => out.res = Fail(400, SlugFormatError) /\ out.dbCalls = 0

C9_Witness ==
    /\ Responded
    /\ BadSlug(out)
    /\ out.res.status = 400
    /\ out.dbCalls = 0

-----------------------------------------------------------------------------
(* C10 as stated: a redirect request that found an active record responds  *)
(* with the 301 redirect also when the write of visits fails.              *)

FoundResponded == RedirectResponded /\ out.doc # <<>>

C10_RedirectsDespiteFailedWrite == FoundResponded => out.res.status = 301

(* C10 as amended: a redirect request that found an active record responds *)
(* with the 301 redirect only when the write of visits took effect; when   *)
(* the write fails it responds 500 "Failed to redirect".                   *)

C10_FailedWriteFailsRedirect ==
    FoundResponded =>
        \/ /\ out.res = Redirect(301, out.doc[1].originalUrl)
           /\ store[out.docId].visits = out.doc[1].visits
        \/ out.res = Fail(500, "Failed to redirect")

C10_Witness ==
    /\ FoundResponded
    /\ out.res = Fail(500, "Failed to redirect")
    /\ store[out.docId].visits # out.doc[1].visits

-----------------------------------------------------------------------------
(* C11: soft-delete is idempotent. A delete request on a slug held by a    *)
(* record responds with success whether the record is active or inactive   *)
(* already, and leaves the record inactive; when the record was inactive   *)
(* before, the delete leaves the store as it was (two deletes equal one).  *)
(* A delete request on a slug held by no record responds 404 and leaves    *)
(* the store unchanged.                                                    *)

DeleteResponded == Responded /\ out.route = "GET /delete.py" /\ out.slug # <<>>

\* the store with record i soft-deleted
SoftDeleted(st, i) == [st EXCEPT ![i].isActive = FALSE]

C11_DeleteIdempotent ==
    [][ DeleteResponded' =>
           IF \E i \in Ids : store[i].shortSlug = out'.slug
           THEN /\ out'.res.status = 200
                /\ out'.docId \in Holders(out'.slug)
                /\ store' = SoftDeleted(store, out'.docId)
                /\ ~store[out'.docId].isActive => store' = store
           ELSE /\ out'.res = Fail(404, "URL not found")
                /\ store' = store ]_vars

\* the second delete of a slug: received after the first has answered
C11_Witness ==
    /\ DeleteResponded
    /\ out.afterDel
    /\ out.res.status = 200
    /\ ~store[out.docId].isActive

-----------------------------------------------------------------------------
(* C13: the URL validator accepts a string if and only if it parses as an  *)
(* absolute URL that has both a scheme and a host; a creation request with *)
(* a url that lacks either is rejected with InvalidURL (400).              *)

HasSchemeAndHost(url) == UrlParses(url) /\ UrlHost(url) # <<>>

C13_ValidIffSchemeAndHost ==
    CreateResponded /\ out.url # <<>>
        => /\ validateUrl(out.url) <=> HasSchemeAndHost(out.url)
           /\ out.res = Fail(400, "Invalid URL format")
                 <=> ~HasSchemeAndHost(out.url)

-----------------------------------------------------------------------------
(* C14: no step removes a link record, and isActive of a record changes    *)
(* only from true to false: a record that is inactive stays inactive in    *)
(* every later state, also when a redirect request that read the record    *)
(* while it was active writes it back after a concurrent soft-delete.      *)

StaysInactive ==
    \A i \in Ids :
        /\ i \in 1..Len(store')
        /\ ~store[i].isActive => ~store'[i].isActive

C14_NoUndelete == [][StaysInactive]_vars

\* the redirect read the record active and has written it after the delete
C14_Witness ==
    /\ RedirectResponded
    /\ out.res.status = 301
    /\ out.doc[1].isActive
    /\ ~store[out.docId].isActive

-----------------------------------------------------------------------------
(* C15: a redirect request run with no other request in flight changes at  *)
(* most one thing in the store. On a hit (an active record holds the slug) *)
(* it responds 301 and the store differs from the store at its reception   *)
(* by visits of the matched record alone, which is greater by exactly 1;   *)
(* on a miss (no record, or an inactive one) it responds 404 and the store *)
(* is unchanged. No step of the request changes anything else.             *)

\* the active records holding slug
ActiveHolders(slug) == { i \in Holders(slug) : store[i].isActive }

\* a step of the redirect request in flight on handler h
RedirectStep(h) ==
    LET r == req[h]
    IN  IF r.pc = "findOne"
        THEN /\ store' = store
             /\ IF ActiveHolders(r.slug) = {}
                THEN out'.res = Fail(404, "Short URL not found")
                ELSE /\ req'[h].pc = "save"
                     /\ req'[h].docId \in ActiveHolders(r.slug)
        ELSE /\ store' = [store EXCEPT ![r.docId].visits = @ + 1]
             /\ out'.res = Redirect(301, store[r.docId].originalUrl)

C15_RedirectFrame ==
    [][ \A h \in Handlers : InFlight(h, "GET /r/:slug") => RedirectStep(h) ]_vars

\* a hit next to another record
C15_Witness ==
    /\ RedirectResponded
    /\ out.res.status = 301
    /\ Len(store) = 2
    /\ store[out.docId].visits = 1

-----------------------------------------------------------------------------
(* C17: the visits counter of a record is frozen once the record is        *)
(* inactive: no step changes visits of a record whose isActive is false,   *)
(* also when redirect requests and a soft-delete request on the same slug  *)
(* interleave.                                                             *)

VisitsFrozen ==
    \A i \in Ids : ~store[i].isActive => store'[i].visits = store[i].visits

C17_InactiveVisitsFrozen == [][VisitsFrozen]_vars

-----------------------------------------------------------------------------
(* C18: a creation request changes the store in one step or not at all.    *)
(* The step in which a creation request responds with a failure (400, 409  *)
(* or 500, a failed storage call included) leaves the store as it is; the  *)
(* step in which it responds with success appends exactly one record, with *)
(* visits = 0, isActive = true and the slug of the response, and changes   *)
(* no existing record; every other step of a creation request leaves the   *)
(* store as it is.                                                         *)

\* store' is store with one fresh record added
OneRecordAdded ==
    /\ Len(store') = Len(store) + 1
    /\ \A i \in Ids : store'[i] = store[i]
    /\ store'[Len(store')].visits = 0
    /\ store'[Len(store')].isActive
    /\ store'[Len(store')].shortSlug = out'.shortSlug
    /\ out'.docId = Len(store')

CreateEffect ==
    /\ CreateResponded' =>
          IF Succeeded'
          THEN OneRecordAdded
          ELSE out'.res.status \in {400, 409, 500} /\ store' = store
    /\ \A h \in Handlers :
          req'[h] # req[h] /\ req'[h].route \in CreateRoutes => store' = store

-----------------------------------------------------------------------------
(* C12: the /linksdata listing is gated by the admin secret. A request     *)
(* without adminKey responds 401 and a request whose adminKey differs from *)
(* the configured secret responds 403, both in the step that receives the  *)
(* request: the list handler never runs (no handler is ever in flight for  *)
(* such a request) and no storage call is issued. Only a request with the  *)
(* matching key reaches the listing.                                       *)

ListResponded == Responded /\ out.route = "GET /linksdata"

C12_ListingGated ==
    /\ \A h \in Handlers :
          InFlight(h, "GET /linksdata") => req[h].adminKey = ADMIN_KEY
    /\ ListResponded /\ out.adminKey = <<>>
          => out.res = Fail(401, "Admin key required") /\ out.dbCalls = 0
    /\ ListResponded /\ out.adminKey # <<>> /\ out.adminKey # ADMIN_KEY
          => out.res = Fail(403, "Invalid admin key") /\ out.dbCalls = 0
    /\ ListResponded /\ out.dbCalls > 0 => out.adminKey = ADMIN_KEY

\* a wrong key is refused while the store holds a link
C12_Witness ==
    /\ ListResponded
    /\ out.adminKey = <<"x">>
    /\ out.res.status = 403
    /\ out.dbCalls = 0
    /\ Len(store) > 0

-----------------------------------------------------------------------------
(* C16: in the statistics block of a successful /linksdata response, for   *)
(* every combination of the active and search filters, inactiveUrls equals *)
(* the number of records with isActive = false (so it is never negative)   *)
(* and totalUrls equals the number of all records. Stated for one request  *)
(* in flight at a time, so the store of the response is the store the      *)
(* handler counted.                                                        *)

ListSucceeded == ListResponded /\ out.res.status = 200

C16_StatisticsCountAllRecords ==
    ListSucceeded =>
        LET statistics == out.res.data[1].statistics
        IN  /\ statistics.inactiveUrls
                  = Cardinality({ i \in Ids : ~store[i].isActive })
            /\ statistics.inactiveUrls >= 0
            /\ statistics.totalUrls = Len(store)

=============================================================================
